---- MODULE Spec2Model ----
(***************************************************************************)
(* Model of the ShopEase REST API: four Express routers (products,         *)
(* countries, item types, sales channels) mounted by URL prefix, each      *)
(* handler issuing one parameterised SQL statement through the shared      *)
(* pool and answering from the returned rows, plus the error middleware.   *)
(*                                                                         *)
(* A request goes through three steps, as the async handlers do:           *)
(*   Receive  - the handler runs up to `await db.query(...)`               *)
(*   Execute / Fault - the database runs the statement atomically, or the  *)
(*              call rejects                                               *)
(*   Respond  - the continuation (or the catch branch and the error        *)
(*              middleware) sends the response.                            *)
(* Statements of other requests may run between the steps of a request.    *)
(***************************************************************************)
EXTENDS Integers, Sequences, FiniteSets, TLC

\* ---------------------------------------------------------------- bounds
MaxSeed == 2        \* rows a table may hold when the server starts
MaxRequests == 2    \* requests accepted in one behaviour, all may be in flight
MaxId == MaxSeed + 1   \* identifiers the sequences hand out

\* ------------------------------------------------------- values and names
NULL == "NULL"
NameVals == {"c"}
NumVals == {"7"}
Causes == {"bad connection", "constraint violation", "malformed query"}

Prefixes == {"/api/products", "/api/countries", "/api/item-types", "/api/sales-channels"}
Tables == {"product", "country", "item_type", "sales_channel"}
Ops == {"list", "get", "post", "put", "delete"}
Slots == 1..MaxRequests
PathIds == 1..MaxSeed   \* the :id of a request path

\* mutant: the products router mounted at /api/countries too
Mount_Swapped(p) ==
  CASE p = "/api/products" -> "product"
    [] p = "/api/countries" -> "product"
    [] p = "/api/item-types" -> "item_type"
    [] p = "/api/sales-channels" -> "sales_channel"

\* app.use(prefix, router): the table the router mounted at a prefix queries
Mount(p) ==
  CASE p = "/api/products" -> "product"
    [] p = "/api/countries" -> "country"
    [] p = "/api/item-types" -> "item_type"
    [] p = "/api/sales-channels" -> "sales_channel"

\* the routes a router defines: the countries router has no router.get('/')
Routes(p) ==
  IF p = "/api/countries" THEN {"get", "post", "put", "delete"} ELSE Ops

IdCol(t) ==
  CASE t = "product" -> "product_id"
    [] t = "country" -> "country_id"
    [] t = "item_type" -> "item_type_id"
    [] t = "sales_channel" -> "channel_id"

NameCol(t) ==
  CASE t = "product" -> "product_name"
    [] t = "country" -> "country_name"
    [] t = "item_type" -> "item_type_name"
    [] t = "sales_channel" -> "channel_name"

\* the numeric column of a table, if it has one
NumCols(t) ==
  CASE t = "product" -> {"price"}
    [] t = "country" -> {"region_id"}
    [] OTHER -> {}

Columns(t) == {IdCol(t), NameCol(t)} \cup NumCols(t)

\* the fields a client may put in a request body (req.body)
BodyFields(t) == {NameCol(t)} \cup NumCols(t)

\* columns named by INSERT INTO t (...): the product insert names product_name only
InsertCols(t) ==
  IF t = "product" THEN {"product_name"} ELSE {NameCol(t)} \cup NumCols(t)

\* columns named by UPDATE t SET ...
UpdateCols(t) == {NameCol(t)} \cup NumCols(t)

\* a column the INSERT statement does not name takes the column default
ColumnDefault == NULL

FieldVals(c) == IF c \in {"price", "region_id"} THEN NumVals ELSE NameVals

Bodies(t) == UNION {[S -> NameVals \cup NumVals] : S \in SUBSET BodyFields(t)}

WellTyped(b) == \A c \in DOMAIN b : b[c] \in FieldVals(c)

NoBody == [c \in {} |-> NULL]

\* const { f } = req.body: a field the body lacks is undefined, sent as NULL
Param(body, c) == IF c \in DOMAIN body THEN body[c] ELSE NULL

NotFoundMsg(t) ==
  CASE t = "product" -> "Product not found"
    [] t = "country" -> "Country not found"
    [] t = "item_type" -> "Item type not found"
    [] t = "sales_channel" -> "Sales channel not found"

DeletedMsg(t) ==
  CASE t = "product" -> "Product deleted successfully"
    [] t = "country" -> "Country deleted successfully"
    [] t = "item_type" -> "Item type deleted successfully"
    [] t = "sales_channel" -> "Sales channel deleted successfully"

ServerErrorMsg == "Internal Server Error"

\* ------------------------------------------------------------ statements
RowsWithId(T, t, id) == {row \in T : row[IdCol(t)] = id}

MinId(T, t) == CHOOSE i \in {row[IdCol(t)] : row \in T} :
                 \A row \in T : i <= row[IdCol(t)]

RECURSIVE OrderById(_, _)
\* ... ORDER BY <id column>
OrderById(T, t) ==
  IF T = {} THEN <<>>
  ELSE LET first == CHOOSE row \in T : row[IdCol(t)] = MinId(T, t)
       IN <<first>> \o OrderById(T \ {first}, t)

\* SELECT * FROM t ORDER BY id
SelectAll(T, t) == OrderById(T, t)

\* mutant: the SELECT without its WHERE clause
SelectById_NoWhere(T, t, id) == OrderById(T, t)

\* SELECT * FROM t WHERE id = $1
SelectById(T, t, id) == OrderById(RowsWithId(T, t, id), t)

\* the row INSERT INTO t (cols) VALUES (...) stores under a generated id
InsertedRow(t, id, body) ==
  [c \in Columns(t) |->
     IF c = IdCol(t) THEN id
     ELSE IF c \in InsertCols(t) THEN Param(body, c)
     ELSE ColumnDefault]

\* mutant: SET col = COALESCE($n, col), an omitted field keeps its value
UpdatedRow_Coalesce(t, row, body) ==
  [c \in Columns(t) |->
     IF c \in UpdateCols(t) /\ c \in DOMAIN body THEN body[c] ELSE row[c]]

\* the row UPDATE t SET cols = ... makes of a matching row
UpdatedRow(t, row, body) ==
  [c \in Columns(t) |->
     IF c \in UpdateCols(t) THEN Param(body, c) ELSE row[c]]

\* mutant: the UPDATE without its WHERE clause
UpdateTable_NoWhere(T, t, id, body) == {UpdatedRow(t, row, body) : row \in T}

\* mutant: INSERT ... ON CONFLICT DO UPDATE, a missing id is created
UpdateTable_Upsert(T, t, id, body) ==
  IF RowsWithId(T, t, id) = {}
  THEN T \cup {[c \in Columns(t) |-> IF c = IdCol(t) THEN id ELSE Param(body, c)]}
  ELSE {IF row[IdCol(t)] = id THEN UpdatedRow(t, row, body) ELSE row : row \in T}

UpdateTable(T, t, id, body) ==
  {IF row[IdCol(t)] = id THEN UpdatedRow(t, row, body) ELSE row : row \in T}

\* mutant: the DELETE matches nothing
DeleteTable_Keep(T, t, id) == T

DeleteTable(T, t, id) == T \ RowsWithId(T, t, id)

\* ----------------------------------------------------------------- state
VARIABLES
  tbl,      \* tbl[t]: the rows of table t
  seq,      \* seq[t]: the next identifier table t generates
  req,      \* req[s]: the request in slot s
  nreq,     \* requests accepted so far
  posted,   \* history: posted[t] maps an id to the body of the POST that
            \* generated it, until a PUT or DELETE of that id succeeds
  deleted   \* history: deleted[t] is the set of ids a DELETE removed

vars == <<tbl, seq, req, nreq, posted, deleted>>

Idle == [pc |-> "idle"]

\* the rows a table holds when the server starts: none, or MaxSeed rows
\* inserted earlier under the identifiers 1..MaxSeed
SeedRow(t, i) ==
  [c \in Columns(t) |->
     IF c = IdCol(t) THEN i
     ELSE IF c = NameCol(t) THEN (IF i % 2 = 1 THEN "a" ELSE "b")
     ELSE "7"]

Init ==
  /\ \E n \in {0, MaxSeed} :
       /\ tbl = [t \in Tables |-> {SeedRow(t, i) : i \in 1..n}]
       /\ seq = [t \in Tables |-> n + 1]
  /\ req = [s \in Slots |-> Idle]
  /\ nreq = 0
  /\ posted = [t \in Tables |-> NoBody]
  /\ deleted = [t \in Tables |-> {}]

\* what a responded request is left with: its input, the rows or error of
\* its statement, the statements it issued, the responses it sent, and the
\* table before and after its statement ran
NewRequest(p, op, id, body, routed) ==
  [pc |-> IF routed THEN "awaiting" ELSE "unrouted",
   prefix |-> p, op |-> op, id |-> id, body |-> body,
   stmts |-> IF routed THEN 1 ELSE 0,
   sent |-> 0, rows |-> <<>>, err |-> NULL,
   pre |-> {}, post |-> {}, sub |-> NoBody, hadSub |-> FALSE, del |-> FALSE,
   res |-> [status |-> 0, type |-> "none"]]

\* A request arrives; express matches the prefix and the route, and the
\* handler runs to its await with the statement issued.  A path no route
\* matches issues nothing.
Receive(s, p, op, id, body) ==
  /\ nreq < MaxRequests
  /\ s = nreq + 1
  /\ nreq' = nreq + 1
  /\ req' = [req EXCEPT ![s] = NewRequest(p, op, id, body, op \in Routes(p))]
  /\ UNCHANGED <<tbl, seq, posted, deleted>>

ReceiveAny ==
  \E s \in Slots, p \in Prefixes, op \in Ops :
    LET t == Mount(p) IN
    \E id \in (IF op \in {"get", "put", "delete"} THEN PathIds ELSE {0}),
       body \in (IF op \in {"post", "put"}
                 THEN {b \in Bodies(t) : WellTyped(b)} ELSE {NoBody}) :
      Receive(s, p, op, id, body)

\* what the database hands back to the awaiting handler, with the history
\* the properties below read
Settle(s, rows, T, t) ==
  [req[s] EXCEPT !.pc = "settled", !.rows = rows,
                 !.pre = tbl[t], !.post = T,
                 !.hadSub = (req[s].id \in DOMAIN posted[t]),
                 !.sub = IF req[s].id \in DOMAIN posted[t]
                         THEN posted[t][req[s].id] ELSE NoBody,
                 !.del = (req[s].id \in deleted[t])]

Forget(f, id) == [i \in (DOMAIN f) \ {id} |-> f[i]]

Remember(f, id, body) == [i \in (DOMAIN f) \cup {id} |-> IF i = id THEN body ELSE f[i]]

\* SELECT * FROM t ORDER BY id
ExecList(s) ==
  LET t == Mount(req[s].prefix) IN
  /\ req[s].pc = "awaiting" /\ req[s].op = "list"
  /\ req' = [req EXCEPT ![s] = Settle(s, SelectAll(tbl[t], t), tbl[t], t)]
  /\ UNCHANGED <<tbl, seq, nreq, posted, deleted>>

\* SELECT * FROM t WHERE id = $1
ExecGet(s) ==
  LET t == Mount(req[s].prefix) IN
  /\ req[s].pc = "awaiting" /\ req[s].op = "get"
  /\ req' = [req EXCEPT ![s] = Settle(s, SelectById(tbl[t], t, req[s].id), tbl[t], t)]
  /\ UNCHANGED <<tbl, seq, nreq, posted, deleted>>

\* the identifier the database generates for the next row of t
NextId(t) == seq[t]

\* INSERT INTO t (...) VALUES (...) RETURNING *
ExecPost(s) ==
  LET t == Mount(req[s].prefix)
      row == InsertedRow(t, NextId(t), req[s].body)
      T == tbl[t] \cup {row}
  IN
  /\ req[s].pc = "awaiting" /\ req[s].op = "post"
  /\ seq[t] <= MaxId
  /\ tbl' = [tbl EXCEPT ![t] = T]
  /\ seq' = [seq EXCEPT ![t] = seq[t] + 1]
  /\ posted' = [posted EXCEPT ![t] = Remember(posted[t], NextId(t), req[s].body)]
  /\ req' = [req EXCEPT ![s] = Settle(s, <<row>>, T, t)]
  /\ UNCHANGED <<nreq, deleted>>

\* UPDATE t SET ... WHERE id = $n RETURNING *
ExecPut(s) ==
  LET t == Mount(req[s].prefix)
      id == req[s].id
      T == UpdateTable(tbl[t], t, id, req[s].body)
      rows == IF RowsWithId(tbl[t], t, id) = {} THEN <<>> ELSE SelectById(T, t, id)
  IN
  /\ req[s].pc = "awaiting" /\ req[s].op = "put"
  /\ tbl' = [tbl EXCEPT ![t] = T]
  /\ posted' = [posted EXCEPT ![t] = IF rows = <<>> THEN posted[t] ELSE Forget(posted[t], id)]
  /\ req' = [req EXCEPT ![s] = Settle(s, rows, T, t)]
  /\ UNCHANGED <<seq, nreq, deleted>>

\* DELETE FROM t WHERE id = $1 RETURNING *
ExecDelete(s) ==
  LET t == Mount(req[s].prefix)
      id == req[s].id
      T == DeleteTable(tbl[t], t, id)
      rows == OrderById(tbl[t] \ T, t)
  IN
  /\ req[s].pc = "awaiting" /\ req[s].op = "delete"
  /\ tbl' = [tbl EXCEPT ![t] = T]
  /\ posted' = [posted EXCEPT ![t] = IF rows = <<>> THEN posted[t] ELSE Forget(posted[t], id)]
  /\ deleted' = [deleted EXCEPT ![t] = IF rows = <<>> THEN deleted[t] ELSE deleted[t] \cup {id}]
  /\ req' = [req EXCEPT ![s] = Settle(s, rows, T, t)]
  /\ UNCHANGED <<seq, nreq>>

\* mutant: a rejected DELETE has removed its row all the same
FaultEffect_Partial(T, t, s) ==
  IF req[s].op = "delete" THEN DeleteTable(T, t, req[s].id) ELSE T

\* the rows of a table after a statement on it was rejected
FaultEffect(T, t, s) == T

\* db.query rejects: the statement has no effect on the rows; an INSERT may
\* already have drawn its identifier from the sequence
Fault(s, cause, drawn) ==
  LET t == Mount(req[s].prefix) IN
  /\ req[s].pc = "awaiting"
  /\ drawn => (req[s].op = "post" /\ seq[t] <= MaxId)
  /\ tbl' = [tbl EXCEPT ![t] = FaultEffect(tbl[t], t, s)]
  /\ seq' = [seq EXCEPT ![t] = IF drawn THEN seq[t] + 1 ELSE seq[t]]
  /\ req' = [req EXCEPT ![s].pc = "failed", ![s].err = cause,
                        ![s].pre = tbl[t], ![s].post = tbl'[t]]
  /\ UNCHANGED <<nreq, posted, deleted>>

\* mutant: the create handler answers res.json(rows[0]) without status(201)
Reply_Created200(t, op, rows) ==
  CASE op = "list" -> [status |-> 200, type |-> "array", body |-> rows]
    [] op = "post" -> [status |-> 200, type |-> "object", body |-> rows[1]]
    [] op \in {"get", "put"} ->
         IF Len(rows) = 0
         THEN [status |-> 404, type |-> "object", body |-> [message |-> NotFoundMsg(t)]]
         ELSE [status |-> 200, type |-> "object", body |-> rows[1]]
    [] op = "delete" ->
         IF Len(rows) = 0
         THEN [status |-> 404, type |-> "object", body |-> [message |-> NotFoundMsg(t)]]
         ELSE [status |-> 200, type |-> "object", body |-> [message |-> DeletedMsg(t)]]

\* mutant: the delete handler without its rows.length check
Reply_DeleteAlways200(t, op, rows) ==
  CASE op = "list" -> [status |-> 200, type |-> "array", body |-> rows]
    [] op = "post" -> [status |-> 201, type |-> "object", body |-> rows[1]]
    [] op \in {"get", "put"} ->
         IF Len(rows) = 0
         THEN [status |-> 404, type |-> "object", body |-> [message |-> NotFoundMsg(t)]]
         ELSE [status |-> 200, type |-> "object", body |-> rows[1]]
    [] op = "delete" ->
         [status |-> 200, type |-> "object", body |-> [message |-> DeletedMsg(t)]]

\* the handler's code after the await
Reply(t, op, rows) ==
  CASE op = "list" -> [status |-> 200, type |-> "array", body |-> rows]
    [] op = "post" -> [status |-> 201, type |-> "object", body |-> rows[1]]
    [] op \in {"get", "put"} ->
         IF Len(rows) = 0
         THEN [status |-> 404, type |-> "object", body |-> [message |-> NotFoundMsg(t)]]
         ELSE [status |-> 200, type |-> "object", body |-> rows[1]]
    [] op = "delete" ->
         IF Len(rows) = 0
         THEN [status |-> 404, type |-> "object", body |-> [message |-> NotFoundMsg(t)]]
         ELSE [status |-> 200, type |-> "object", body |-> [message |-> DeletedMsg(t)]]

\* mutant: the middleware answers with the error's own message
ErrorReply_Leak(err) ==
  [status |-> 500, type |-> "object", body |-> [message |-> err]]

\* app.use((err, req, res, next) => res.status(500).json(...))
ErrorReply(err) ==
  [status |-> 500, type |-> "object", body |-> [message |-> ServerErrorMsg]]

\* mutant: the 404 branch without its return, res.json runs as well
Sends_NoReturn(op, rows) ==
  IF op \in {"get", "put", "delete"} /\ Len(rows) = 0 THEN 2 ELSE 1

\* the res.json calls the code after the await runs: the 404 branch
\* returns, so the success response below it is not sent as well
Sends(op, rows) ==
  IF op \in {"get", "put", "delete"} /\ Len(rows) = 0 THEN 1 ELSE 1

\* express answers a request no route matched
DefaultReply(p) == [status |-> 404, type |-> "html", body |-> "Cannot GET " \o p]

Respond(s) ==
  /\ req[s].pc = "settled"
  /\ req' = [req EXCEPT ![s].pc = "responded",
                        ![s].sent = req[s].sent + Sends(req[s].op, req[s].rows),
                        ![s].res = Reply(Mount(req[s].prefix), req[s].op, req[s].rows)]
  /\ UNCHANGED <<tbl, seq, nreq, posted, deleted>>

\* mutant: the catch branch issues the statement again
ErrorHandler_Retry(s) ==
  /\ req[s].pc = "failed"
  /\ req' = [req EXCEPT ![s].pc = "awaiting",
                        ![s].stmts = req[s].stmts + 1,
                        ![s].err = NULL]
  /\ UNCHANGED <<tbl, seq, nreq, posted, deleted>>

\* catch (error) { next(error) } and the error middleware
ErrorHandler(s) ==
  /\ req[s].pc = "failed"
  /\ req' = [req EXCEPT ![s].pc = "responded",
                        ![s].sent = req[s].sent + 1,
                        ![s].res = ErrorReply(req[s].err)]
  /\ UNCHANGED <<tbl, seq, nreq, posted, deleted>>

NotRouted(s) ==
  /\ req[s].pc = "unrouted"
  /\ req' = [req EXCEPT ![s].pc = "responded",
                        ![s].sent = req[s].sent + 1,
                        ![s].res = DefaultReply(req[s].prefix)]
  /\ UNCHANGED <<tbl, seq, nreq, posted, deleted>>

Next ==
  \/ ReceiveAny
  \/ \E s \in Slots : ExecList(s)
  \/ \E s \in Slots : ExecGet(s)
  \/ \E s \in Slots : ExecPost(s)
  \/ \E s \in Slots : ExecPut(s)
  \/ \E s \in Slots : ExecDelete(s)
  \/ \E s \in Slots, cause \in Causes, drawn \in BOOLEAN : Fault(s, cause, drawn)
  \/ \E s \in Slots : Respond(s)
  \/ \E s \in Slots : ErrorHandler(s)
  \/ \E s \in Slots : NotRouted(s)

Spec == Init /\ [][Next]_vars

TypeOK ==
  /\ \A t \in Tables : \A row \in tbl[t] : DOMAIN row = Columns(t)
  /\ \A t \in Tables : seq[t] \in 1..(MaxId + 1)
  /\ nreq \in 0..MaxRequests

\* ------------------------------------------------------------ properties
\* a request whose response has been sent
Responded(s) == req[s].pc = "responded"

\* a responded request whose database call did not reject
Answered(s, op) == Responded(s) /\ req[s].op = op /\ req[s].err = NULL

TableOf(s) == Mount(req[s].prefix)

\* the row of table T under the request's id exists
Matched(s, T) == RowsWithId(T, TableOf(s), req[s].id) # {}

Ascending(rows, t) ==
  \A i, j \in 1..Len(rows) : i < j => rows[i][IdCol(t)] < rows[j][IdCol(t)]

\* C1: for each of the four entities, GET /api/E (database call not
\* rejected) responds 200 with an array holding every row the table had when
\* the statement ran exactly once, in ascending identifier order, its length
\* the row count (empty for an empty table).
C1_ListAll ==
  \A s \in Slots : Answered(s, "list") =>
    /\ req[s].res.status = 200
    /\ req[s].res.type = "array"
    /\ Len(req[s].res.body) = Cardinality(req[s].pre)
    /\ {req[s].res.body[i] : i \in 1..Len(req[s].res.body)} = req[s].pre
    /\ Ascending(req[s].res.body, TableOf(s))

\* C2: a GET /api/E/{id} whose statement runs after the POST that generated
\* id, with no PUT or DELETE of id in between, returns the field values of
\* the POST body plus the generated identifier (for products, the price of
\* the body too).
C2_PostThenGet ==
  \A s \in Slots : (Answered(s, "get") /\ req[s].hadSub) =>
    /\ req[s].res.status = 200
    /\ req[s].res.body[IdCol(TableOf(s))] = req[s].id
    /\ \A c \in DOMAIN req[s].sub : req[s].res.body[c] = req[s].sub[c]

\* C3: DELETE /api/E/{id} on an existing id responds 200 with a body that is
\* only the success message, the row is gone from the table and the other
\* rows stay, and a GET of that id whose statement runs later responds 404.
C3_DeleteThenGet ==
  /\ \A s \in Slots : (Answered(s, "delete") /\ Matched(s, req[s].pre)) =>
        /\ req[s].res.status = 200
        /\ req[s].res.type = "object"
        /\ req[s].res.body = [message |-> DeletedMsg(TableOf(s))]
        /\ ~Matched(s, req[s].post)
        /\ req[s].post = {row \in req[s].pre : row[IdCol(TableOf(s))] # req[s].id}
  /\ \A t \in Tables : \A id \in deleted[t] : RowsWithId(tbl[t], t, id) = {}
  /\ \A s \in Slots : (Answered(s, "get") /\ req[s].del) => req[s].res.status = 404

C3_Witness ==
  \E s1, s2 \in Slots :
    /\ Answered(s1, "delete") /\ Matched(s1, req[s1].pre) /\ Cardinality(req[s1].pre) > 1
    /\ Answered(s2, "get") /\ req[s2].del
    /\ req[s2].prefix = req[s1].prefix /\ req[s2].id = req[s1].id

\* C4: PUT /api/E/{id} on an existing id responds 200 with the row after the
\* update: its identifier is id, its mutable fields are the submitted values,
\* and it is the row the table then stores; PUT on an id with no row: 404.
C4_Put ==
  \A s \in Slots : Answered(s, "put") =>
    IF Matched(s, req[s].pre)
    THEN /\ req[s].res.status = 200
         /\ req[s].res.type = "object"
         /\ req[s].res.body[IdCol(TableOf(s))] = req[s].id
         /\ \A c \in DOMAIN req[s].body : req[s].res.body[c] = req[s].body[c]
         /\ RowsWithId(req[s].post, TableOf(s), req[s].id) = {req[s].res.body}
    ELSE /\ req[s].res.status = 404
         /\ req[s].post = req[s].pre

C4_Witness ==
  \E s \in Slots :
    /\ Answered(s, "put") /\ Matched(s, req[s].pre)
    /\ Cardinality(req[s].pre) > 1
    /\ req[s].post # req[s].pre
    /\ NameCol(TableOf(s)) \in DOMAIN req[s].body
    /\ req[s].res.status = 200

\* C5: GET /api/E/{id} with an id no row has responds 404 with a JSON body
\* holding the resource's not-found message in a message field; otherwise it
\* responds 200 with the one matching row.
C5_GetById ==
  \A s \in Slots : Answered(s, "get") =>
    IF Matched(s, req[s].pre)
    THEN /\ req[s].res.status = 200
         /\ req[s].res.type = "object"
         /\ RowsWithId(req[s].pre, TableOf(s), req[s].id) = {req[s].res.body}
    ELSE /\ req[s].res.status = 404
         /\ req[s].res.type = "object"
         /\ "message" \in DOMAIN req[s].res.body
         /\ req[s].res.body.message = NotFoundMsg(TableOf(s))

C5_Witness ==
  \E s \in Slots :
    /\ Answered(s, "get") /\ ~Matched(s, req[s].pre)
    /\ req[s].pre # {}
    /\ req[s].res.status = 404

\* C6: a POST /api/E whose statement succeeds responds 201 with the row just
\* stored, identifier included; the table gains that one row, whose
\* identifier no earlier row has, and the earlier rows are unchanged.
C6_Create ==
  \A s \in Slots : Answered(s, "post") =>
    /\ req[s].res.status = 201
    /\ req[s].res.type = "object"
    /\ DOMAIN req[s].res.body = Columns(TableOf(s))
    /\ req[s].res.body \notin req[s].pre
    /\ req[s].post = req[s].pre \cup {req[s].res.body}
    /\ Cardinality(req[s].post) = Cardinality(req[s].pre) + 1
    /\ \A row \in req[s].pre :
         row[IdCol(TableOf(s))] # req[s].res.body[IdCol(TableOf(s))]

C6_Witness ==
  \E s \in Slots : Answered(s, "post") /\ req[s].pre # {} /\ req[s].res.status = 201

\* C7: whatever made the database call reject, the request is answered by
\* the error middleware with status 500 and the fixed body
\* {message: 'Internal Server Error'}.
C7_FaultBoundary ==
  \A s \in Slots : (Responded(s) /\ req[s].err # NULL) =>
    req[s].res = [status |-> 500, type |-> "object",
                  body |-> [message |-> "Internal Server Error"]]

C7_Witness ==
  \E s1, s2 \in Slots :
    /\ Responded(s1) /\ Responded(s2)
    /\ req[s1].err \in Causes /\ req[s2].err \in Causes
    /\ req[s1].err # req[s2].err
    /\ req[s1].op # req[s2].op
    /\ req[s1].res = req[s2].res

\* C8: a PUT /api/E/{id} that updates a row overwrites every mutable field:
\* the stored row holds the submitted value of each field of the body and
\* NULL for each mutable field the body omits, never the previous value.
C8_PutOverwrites ==
  \A s \in Slots : (Answered(s, "put") /\ Matched(s, req[s].pre)) =>
    \A row \in RowsWithId(req[s].post, TableOf(s), req[s].id) :
      \A c \in Columns(TableOf(s)) \ {IdCol(TableOf(s))} :
        row[c] = IF c \in DOMAIN req[s].body THEN req[s].body[c] ELSE NULL

C8_Witness ==
  \E s \in Slots :
    /\ Answered(s, "put") /\ Matched(s, req[s].pre)
    /\ \E old \in RowsWithId(req[s].pre, TableOf(s), req[s].id),
          new \in RowsWithId(req[s].post, TableOf(s), req[s].id),
          c \in Columns(TableOf(s)) :
         c \notin DOMAIN req[s].body /\ c # IdCol(TableOf(s))
         /\ old[c] # NULL /\ new[c] = NULL

\* C9: a request a handler takes issues exactly one database statement; when
\* the statement is rejected, the next step of that request is its 500
\* response, with no second statement.
C9_NoRetry ==
  /\ [](\A s \in Slots :
          (req[s].pc # "idle" /\ req[s].op \in Routes(req[s].prefix)) => req[s].stmts = 1)
  /\ [][\A s \in Slots :
          (req[s].pc = "failed" /\ req'[s] # req[s]) =>
             /\ req'[s].pc = "responded"
             /\ req'[s].res.status = 500
             /\ req'[s].stmts = 1]_vars

C9_Witness ==
  \E s \in Slots : Responded(s) /\ req[s].err # NULL /\ req[s].stmts = 1
                    /\ req[s].res.status = 500

Writes == {"post", "put", "delete"}

\* the rows of the request's table once its statement, which returned rows,
\* has had its whole effect on the table T
WholeEffect(s, T, rows) ==
  LET t == TableOf(s)
      others == {row \in T : row[IdCol(t)] # req[s].id}
  IN CASE req[s].op = "post" -> T \cup {rows[1]}
       [] req[s].op = "put" -> IF Len(rows) = 0 THEN T ELSE others \cup {rows[1]}
       [] req[s].op = "delete" -> IF Len(rows) = 0 THEN T ELSE others
       [] OTHER -> T

\* C10: a create, update or delete whose statement is rejected (response 500)
\* leaves all four tables as they were, and every change of the tables is the
\* whole effect of one statement in one step, other requests in flight or not.
C10_Atomic ==
  /\ [](\A s \in Slots :
          (Responded(s) /\ req[s].err # NULL) =>
             req[s].res.status = 500 /\ req[s].post = req[s].pre)
  /\ [][(\E s \in Slots : req[s].pc = "awaiting" /\ req'[s].pc = "failed")
          => tbl' = tbl]_vars
  /\ [][tbl' # tbl =>
          \E s \in Slots :
            /\ req[s].pc = "awaiting" /\ req'[s].pc = "settled"
            /\ req[s].op \in Writes
            /\ \A o \in Slots \ {s} : req'[o] = req[o]
            /\ tbl' = [tbl EXCEPT ![TableOf(s)] =
                         WholeEffect(s, tbl[TableOf(s)], req'[s].rows)]]_vars

C10_Witness ==
  \E s1, s2 \in Slots :
    /\ Responded(s1) /\ req[s1].err # NULL /\ req[s1].op \in Writes
    /\ req[s1].res.status = 500
    /\ (req[s1].op = "post" \/ Matched(s1, req[s1].pre))
    /\ req[s2].pc = "settled" /\ req[s2].op \in Writes
    /\ req[s2].post # req[s2].pre
    /\ req[s2].prefix = req[s1].prefix

\* the table the API serves under a URL prefix
EntityOf(p) ==
  CASE p = "/api/products" -> "product"
    [] p = "/api/countries" -> "country"
    [] p = "/api/item-types" -> "item_type"
    [] p = "/api/sales-channels" -> "sales_channel"

InFlight(s) == req[s].pc \in {"awaiting", "unrouted"}

\* C11: a request under /api/products, /api/countries, /api/item-types or
\* /api/sales-channels reads and writes only that entity's table: the rows
\* its statement returns are rows of that table, and the step in which its
\* statement runs leaves the other three tables unchanged.
C11_OwnTableOnly ==
  /\ [](\A s \in Slots : req[s].pc \in {"settled", "responded"} =>
          \A i \in 1..Len(req[s].rows) :
            DOMAIN req[s].rows[i] = Columns(EntityOf(req[s].prefix)))
  /\ [][\A s \in Slots :
          (InFlight(s) /\ req'[s] # req[s]) =>
            \A t \in Tables \ {EntityOf(req[s].prefix)} : tbl'[t] = tbl[t]]_vars

C11_Witness ==
  \E s \in Slots :
    /\ Responded(s) /\ req[s].err = NULL /\ req[s].op \in Writes
    /\ req[s].post # req[s].pre
    /\ tbl[EntityOf(req[s].prefix)] = req[s].post
    /\ \A t \in Tables \ {EntityOf(req[s].prefix)} : Cardinality(tbl[t]) = MaxSeed

\* C12: GET by id, list, and PUT or DELETE on an id no row has never add,
\* remove or modify a row of any table, and neither does any request that
\* is answered 404.
C12_ReadsAndMissesChangeNothing ==
  /\ [](\A s \in Slots :
          (Responded(s) /\ req[s].err = NULL
             /\ (req[s].op \in {"get", "list"} \/ req[s].res.status = 404)) =>
            req[s].post = req[s].pre)
  /\ [][\A s \in Slots :
          (/\ InFlight(s) /\ req'[s] # req[s]
           /\ \/ req[s].op \in {"get", "list"}
              \/ req[s].op \in {"put", "delete"} /\ ~Matched(s, tbl[TableOf(s)]))
          => tbl' = tbl]_vars

C12_Witness ==
  \E s1, s2 \in Slots :
    /\ Answered(s1, "put") /\ req[s1].res.status = 404 /\ req[s1].pre # {}
    /\ Answered(s2, "delete") /\ req[s2].res.status = 200
    /\ req[s1].prefix = req[s2].prefix

\* C13: of the DELETE /api/E/{id} requests on one id, whatever the order in
\* which their statements run, at most one responds 200, and exactly one when
\* the row was there for one of them, the others responding 404; a PUT on the
\* id whose statement runs after the delete responds 404 and the row stays
\* absent.
C13_DeleteOnce ==
  /\ \A s1, s2 \in Slots :
       (/\ s1 # s2 /\ Answered(s1, "delete") /\ Answered(s2, "delete")
        /\ req[s1].prefix = req[s2].prefix /\ req[s1].id = req[s2].id) =>
         /\ ~(req[s1].res.status = 200 /\ req[s2].res.status = 200)
         /\ {req[s1].res.status, req[s2].res.status} \subseteq {200, 404}
         /\ (Matched(s1, req[s1].pre) \/ Matched(s2, req[s2].pre)) =>
              {req[s1].res.status, req[s2].res.status} = {200, 404}
  /\ \A s \in Slots : (Answered(s, "put") /\ req[s].del) =>
       /\ req[s].res.status = 404
       /\ ~Matched(s, req[s].post)

C13_Witness ==
  \E s1, s2 \in Slots :
    /\ s1 < s2 /\ Answered(s1, "delete") /\ Answered(s2, "delete")
    /\ req[s1].prefix = req[s2].prefix /\ req[s1].id = req[s2].id
    /\ req[s1].res.status = 404 /\ req[s2].res.status = 200

\* C14: a request to a defined route sends no response before its database
\* call settles and exactly one after: once the call has settled or rejected
\* the response step is enabled, and the one response is a success response,
\* the 404 response or the 500 of the error middleware, never a second one.
C14_OneResponse ==
  \A s \in Slots : (req[s].pc # "idle" /\ req[s].op \in Routes(req[s].prefix)) =>
    /\ req[s].pc = "awaiting" => req[s].sent = 0
    /\ req[s].pc = "settled" => (req[s].sent = 0 /\ ENABLED Respond(s))
    /\ req[s].pc = "failed" => (req[s].sent = 0 /\ ENABLED ErrorHandler(s))
    /\ req[s].pc = "responded" =>
         /\ req[s].sent = 1
         /\ \/ req[s].err = NULL /\ req[s].res.status \in {200, 201}
            \/ /\ req[s].err = NULL /\ req[s].res.status = 404
               /\ req[s].op \in {"get", "put", "delete"} /\ Len(req[s].rows) = 0
            \/ req[s].err # NULL /\ req[s].res.status = 500

C14_Witness ==
  \E s1, s2 \in Slots :
    /\ Answered(s1, "delete") /\ req[s1].res.status = 404 /\ req[s1].sent = 1
    /\ Responded(s2) /\ req[s2].err # NULL /\ req[s2].sent = 1
====
